---- MODULE Spec2Model ----
(***************************************************************************)
(* Model of 03_pin_dislo/analysis.py: the frame catalog (get_filenames,    *)
(* natural_sort_key), the work partitioner (split_indexes) and the MPI     *)
(* coordinator (main, process_file, performDXA, performWS).                *)
(***************************************************************************)
EXTENDS Integers, Sequences, FiniteSets, TLC

VARIABLES
    \* --- partitioner harness: split_indexes(n_files, rank, size) ---
    n_files,        \* number of files handed to split_indexes
    sp_size,        \* number of ranks handed to split_indexes
    ranges,         \* rank -> <<start, end>> returned by split_indexes, for the ranks called so far
    \* --- catalog harness: get_filenames(dir_path) ---
    entries,        \* names of the regular files present in the directory
    listing,        \* the order in which os.listdir currently enumerates them
    files,          \* what get_filenames returned on the last call (None before it)
    \* --- coordinator: main() on every rank of MPI.COMM_WORLD ---
    size,           \* comm.Get_size()
    dir_ok,         \* os.listdir(DATA_DIR) succeeds
    ref_ok,         \* REFERENCE_FILE exists and is well-formed
    on_crash,       \* what the MPI launcher does once a rank died of an exception
    pc,             \* rank -> where the rank is in main()
    status,         \* rank -> "running", "raised" (uncaught exception) or "killed"
    dump_files,     \* rank -> main's local dump_files (None until assigned)
    bcast_buf,      \* the object rank 0 handed to comm.bcast (None before it)
    start_end,      \* rank -> <<start, end>> from split_indexes (NoRange before it)
    frame_idx,      \* rank -> number of loop iterations of process_file begun
    processed,      \* rank -> frames whose loop iteration ran to its end, in order
    ref_loads,      \* rank -> number of loads of REFERENCE_FILE
    exported,       \* <<output directory, frame>> for every output file written
    catalog_calls,  \* ranks that have called get_filenames
    acked,          \* rank 0 has printed "Successfully processed all files..."
    \* --- analysis harness: one loop iteration of process_file on one frame ---
    loaded,         \* the atoms of the frame as import_file / compute loaded them
    reference,      \* the sites of REFERENCE_FILE
    heap,           \* the particle containers allocated so far, by object number
    coll,           \* DataCollection -> number of the container it refers to (0: none)
    apc,            \* position in the loop body
    assigned,       \* atom id -> id of the site the Wigner-Seitz analysis assigned it to
    out             \* output directory -> <<records of the file written there>> (NoFile before)

harness_vars == <<n_files, sp_size, ranges, entries, listing, files>>

main_vars == <<size, dir_ok, ref_ok, on_crash, pc, status, dump_files, bcast_buf,
               start_end, frame_idx, processed, ref_loads, exported, catalog_calls, acked>>

analysis_vars == <<loaded, reference, heap, coll, apc, assigned, out>>

vars == <<n_files, sp_size, ranges, entries, listing, files,
          size, dir_ok, ref_ok, on_crash, pc, status, dump_files, bcast_buf,
          start_end, frame_idx, processed, ref_loads, exported, catalog_calls, acked,
          loaded, reference, heap, coll, apc, assigned, out>>

\* Python's None in a variable that otherwise holds a list of file names (no
\* file name is empty), and in one that otherwise holds <<start, end>>.
None == << <<>> >>
NoRange == <<>>

\* ---------------------------------------------------------------------------
\* Bounds
\* ---------------------------------------------------------------------------
MaxN == 38          \* split_indexes is called with n_files in 0..MaxN
MaxSplitSize == 5   \* split_indexes is called with size in 1..MaxSplitSize
MaxFiles == 3       \* a directory of the catalog harness holds at most MaxFiles names
MaxSize == 3        \* the coordinator runs on 1..MaxSize ranks
MaxFrames == 3      \* DATA_DIR holds at most MaxFrames dump files
MaxAtoms == 3       \* a frame of the analysis harness holds at most MaxAtoms atoms
MaxSites == 3       \* the reference lattice has at most MaxSites sites

\* ---------------------------------------------------------------------------
\* split_indexes (analysis.py 203-215); sz is its parameter `size`
\* ---------------------------------------------------------------------------
\* Faulty variant of split_start: the ranks past the remainder forget its offset.
split_start_no_remainder(n, rank, sz) ==
    LET chunk_size == n \div sz
        remainder  == n % sz
    IN  IF rank < remainder
        THEN rank * (chunk_size + 1)
        ELSE rank * chunk_size

split_start(n, rank, sz) ==
    LET chunk_size == n \div sz
        remainder  == n % sz
    IN  IF rank < remainder
        THEN rank * (chunk_size + 1)
        ELSE rank * chunk_size + remainder

\* Faulty variant of split_end: every rank gets chunk_size indices.
split_end_uniform(n, rank, sz) ==
    split_start(n, rank, sz) + (n \div sz)

split_end(n, rank, sz) ==
    LET chunk_size == n \div sz
        remainder  == n % sz
    IN  IF rank < remainder
        THEN split_start(n, rank, sz) + chunk_size + 1
        ELSE split_start(n, rank, sz) + chunk_size

split_indexes(n, rank, sz) ==
    <<split_start(n, rank, sz), split_end(n, rank, sz)>>

\* ---------------------------------------------------------------------------
\* Characters and strings.  A string is a sequence of one-character strings.
\* ---------------------------------------------------------------------------
Digits == {"0", "1", "2", "3", "4", "5", "6", "7", "8", "9"}

\* Code point of a character (the characters the model's names use).
ord(c) ==
    CASE c = "0" -> 48 [] c = "1" -> 49 [] c = "2" -> 50 [] c = "3" -> 51
      [] c = "4" -> 52 [] c = "5" -> 53 [] c = "6" -> 54 [] c = "7" -> 55
      [] c = "8" -> 56 [] c = "9" -> 57
      [] c = "A" -> 65 [] c = "D" -> 68 [] c = "F" -> 70
      [] c = "_" -> 95
      [] c = "a" -> 97 [] c = "d" -> 100 [] c = "e" -> 101 [] c = "f" -> 102
      [] c = "m" -> 109 [] c = "p" -> 112 [] c = "r" -> 114 [] c = "u" -> 117

\* str.lower() on one character.
lower_char(c) ==
    CASE c = "A" -> "a" [] c = "D" -> "d" [] c = "F" -> "f" [] OTHER -> c

\* str.lower()
lower(s) == [i \in 1..Len(s) |-> lower_char(s[i])]

\* str.isdigit(): non-empty and every character a digit.
isdigit(s) == Len(s) > 0 /\ \A i \in 1..Len(s) : s[i] \in Digits

\* int(text) for a string of decimal digits.
RECURSIVE int(_)
int(s) ==
    IF Len(s) = 0 THEN 0
    ELSE 10 * int(SubSeq(s, 1, Len(s) - 1)) + (ord(s[Len(s)]) - 48)

\* str < str: lexicographic by code point, a proper prefix is smaller.
RECURSIVE str_lt(_, _)
str_lt(a, b) ==
    IF Len(b) = 0 THEN FALSE
    ELSE IF Len(a) = 0 THEN TRUE
    ELSE IF a[1] # b[1] THEN ord(a[1]) < ord(b[1])
    ELSE str_lt(Tail(a), Tail(b))

\* Length of the longest prefix of s made of digits / of non-digits.
RECURSIVE digit_run(_)
digit_run(s) ==
    IF Len(s) = 0 \/ s[1] \notin Digits THEN 0 ELSE 1 + digit_run(Tail(s))

RECURSIVE nondigit_run(_)
nondigit_run(s) ==
    IF Len(s) = 0 \/ s[1] \in Digits THEN 0 ELSE 1 + nondigit_run(Tail(s))

\* re.split(r'(\d+)', s): the non-digit pieces at odd positions, the captured
\* digit runs at even positions; the first and the last piece may be empty.
RECURSIVE re_split(_)
re_split(s) ==
    LET n == nondigit_run(s)
    IN  IF n = Len(s) THEN <<s>>
        ELSE LET rest == SubSeq(s, n + 1, Len(s))
                 d    == digit_run(rest)
             IN  <<SubSeq(s, 1, n), SubSeq(rest, 1, d)>>
                   \o re_split(SubSeq(rest, d + 1, Len(rest)))

\* Faulty variant of key_part: digit runs are kept as text, not converted.
key_part_text_only(text) == <<"str", lower(text)>>

\* One element of a sort key: <<"int", value>> or <<"str", text>>.
key_part(text) ==
    IF isdigit(text) THEN <<"int", int(text)>> ELSE <<"str", lower(text)>>

\* natural_sort_key (analysis.py 199-201)
natural_sort_key(s) ==
    LET parts == re_split(s)
    IN  [i \in 1..Len(parts) |-> key_part(parts[i])]

\* == and < on two key elements.  Comparing an int with a str is Python's
\* TypeError; here str_lt would be applied to a number, which TLC rejects.
part_eq(a, b) == a[1] = b[1] /\ a[2] = b[2]

part_lt(a, b) ==
    IF a[1] = "int" /\ b[1] = "int" THEN a[2] < b[2] ELSE str_lt(a[2], b[2])

\* list < list: the first pair of unequal elements decides, else the shorter.
RECURSIVE key_lt(_, _)
key_lt(a, b) ==
    IF Len(b) = 0 THEN FALSE
    ELSE IF Len(a) = 0 THEN TRUE
    ELSE IF ~part_eq(a[1], b[1]) THEN part_lt(a[1], b[1])
    ELSE key_lt(Tail(a), Tail(b))

\* Stable insertion: x goes before the first element whose key is greater.
RECURSIVE insert_sorted(_, _)
insert_sorted(ys, x) ==
    IF Len(ys) = 0 THEN <<x>>
    ELSE IF key_lt(natural_sort_key(x), natural_sort_key(ys[1]))
         THEN <<x>> \o ys
         ELSE <<ys[1]>> \o insert_sorted(Tail(ys), x)

\* sorted(files, key=natural_sort_key): a stable sort.
RECURSIVE sorted(_)
sorted(xs) ==
    IF Len(xs) = 0 THEN <<>>
    ELSE insert_sorted(sorted(SubSeq(xs, 1, Len(xs) - 1)), xs[Len(xs)])

\* get_filenames (analysis.py 194-197).  `names` is the os.listdir result with
\* the entries that are not regular files already left out: the comprehension
\* of line 196 keeps the order of the entries it keeps.
get_filenames(names) == sorted(names)

\* ---------------------------------------------------------------------------
\* Inputs of the harnesses
\* ---------------------------------------------------------------------------
frame_1  == <<"f", "r", "a", "m", "e", "_", "1">>
frame_2  == <<"f", "r", "a", "m", "e", "_", "2">>
frame_10 == <<"f", "r", "a", "m", "e", "_", "1", "0">>
frame_01 == <<"f", "r", "a", "m", "e", "_", "0", "1">>
Frame_1  == <<"F", "r", "a", "m", "e", "_", "1">>

ExampleNames == {frame_1, frame_2, frame_10, frame_01, Frame_1}

ShortAlphabet == {"a", "A", "1"}

\* Every name of one or two characters over ShortAlphabet, and the examples.
NameUniverse ==
    ExampleNames
      \cup {<<x>> : x \in ShortAlphabet}
      \cup {<<x, y>> : x \in ShortAlphabet, y \in ShortAlphabet}

Directories == {d \in SUBSET NameUniverse : Cardinality(d) <= MaxFiles}

\* The orders in which os.listdir may enumerate the set S.
Orders(S) ==
    {o \in [1..Cardinality(S) -> S] : \A i, j \in 1..Cardinality(S) : o[i] = o[j] => i = j}

\* ---------------------------------------------------------------------------
\* Partitioner harness
\* ---------------------------------------------------------------------------
NoRanges == [r \in {} |-> <<0, 0>>]

CatalogIdle == entries = {} /\ listing = <<>> /\ files = None

\* The coordinator's variables while a harness runs: one rank, nothing started.
MainIdle ==
    /\ size = 1
    /\ dir_ok = TRUE /\ ref_ok = TRUE /\ on_crash = "undecided"
    /\ pc = [r \in {0} |-> "init"]
    /\ status = [r \in {0} |-> "running"]
    /\ dump_files = [r \in {0} |-> None]
    /\ bcast_buf = None
    /\ start_end = [r \in {0} |-> NoRange]
    /\ frame_idx = [r \in {0} |-> 0]
    /\ processed = [r \in {0} |-> <<>>]
    /\ ref_loads = [r \in {0} |-> 0]
    /\ exported = {}
    /\ catalog_calls = {}
    /\ acked = FALSE
SplitIdle   == n_files = 0 /\ sp_size = 1 /\ ranges = NoRanges

\* The analysis harness's variables while another specification runs.
AnalysisIdle ==
    /\ loaded = {} /\ reference = {}
    /\ heap = <<>>
    /\ coll = [c \in {"data", "dxa", "ws", "vac", "sia"} |-> 0]
    /\ apc = "idle"
    /\ assigned = <<>>
    /\ out = [d \in {"dxa", "dxa_atoms", "ws_vac", "ws_sia"} |-> <<>>]

SplitInit ==
    /\ n_files \in 0..MaxN
    /\ sp_size \in 1..MaxSplitSize
    /\ ranges = NoRanges
    /\ CatalogIdle
    /\ MainIdle
    /\ AnalysisIdle

\* One rank calls split_indexes(n_files, rank, size).
CallSplit(rank) ==
    /\ rank \notin DOMAIN ranges
    /\ ranges' = [r \in DOMAIN ranges \cup {rank} |->
                    IF r = rank THEN split_indexes(n_files, rank, sp_size) ELSE ranges[r]]
    /\ UNCHANGED <<n_files, sp_size, entries, listing, files>>
    /\ UNCHANGED main_vars
    /\ UNCHANGED analysis_vars

SplitNext == \E rank \in 0..(sp_size - 1) : CallSplit(rank)

SplitSpec == SplitInit /\ [][SplitNext]_vars

\* ---------------------------------------------------------------------------
\* Catalog harness
\* ---------------------------------------------------------------------------
CatalogInit ==
    /\ entries \in Directories
    /\ listing \in Orders(entries)
    /\ files = None
    /\ SplitIdle
    /\ MainIdle
    /\ AnalysisIdle

\* One call of get_filenames on the directory as os.listdir enumerates it now.
CallGetFilenames ==
    /\ files' = get_filenames(listing)
    /\ UNCHANGED <<n_files, sp_size, ranges, entries, listing>>
    /\ UNCHANGED main_vars
    /\ UNCHANGED analysis_vars

\* The file system comes to enumerate the same directory in another order
\* (os.listdir documents its order as arbitrary): two neighbours change
\* places, and repeated steps reach every order.
Relist ==
    /\ \E i \in 1..(Len(listing) - 1) :
          listing' = [listing EXCEPT ![i] = listing[i + 1], ![i + 1] = listing[i]]
    /\ UNCHANGED <<n_files, sp_size, ranges, entries, files>>
    /\ UNCHANGED main_vars
    /\ UNCHANGED analysis_vars

CatalogNext == CallGetFilenames \/ Relist

CatalogSpec == CatalogInit /\ [][CatalogNext]_vars

\* ---------------------------------------------------------------------------
\* Coordinator: main() (analysis.py 48-75) run by `size` MPI ranks
\* ---------------------------------------------------------------------------
Ranks == 0..(size - 1)

\* The dump files 03_pin_dislo/run.py writes (dump_<timestep>, every DUMP_FREQ steps).
dump_0     == <<"d", "u", "m", "p", "_", "0">>
dump_1000  == <<"d", "u", "m", "p", "_", "1", "0", "0", "0">>
dump_2000  == <<"d", "u", "m", "p", "_", "2", "0", "0", "0">>
dump_10000 == <<"d", "u", "m", "p", "_", "1", "0", "0", "0", "0">>

DumpNames == {dump_0, dump_1000, dump_2000, dump_10000}

DataDirs == {d \in SUBSET DumpNames : Cardinality(d) <= MaxFrames}

\* The steps of one loop iteration of process_file that can raise, in order.
Stages == <<"import", "dxa", "export_dxa", "export_dxa_atoms",
            "ws_load", "ws", "export_vac", "export_sia">>

StageNo(stage) == CHOOSE k \in 1..Len(Stages) : Stages[k] = stage

Outcomes == {Stages[k] : k \in 1..Len(Stages)} \cup {"ok"}

\* `stage` ran to its end in an iteration that ended with `outcome`
\* ("ok", or the stage that raised).
Completed(stage, outcome) ==
    outcome = "ok" \/ StageNo(stage) < StageNo(outcome)

\* The outcomes the reference file allows: the load of line 130 raises exactly
\* when the file is missing or malformed.
Possible(outcome) ==
    IF ref_ok THEN outcome # "ws_load"
    ELSE outcome # "ok" /\ StageNo(outcome) <= StageNo("ws_load")

\* Output files one iteration writes: performDXA lines 109 and 111,
\* performWS lines 162 and 169.
Exports(frame, outcome) ==
    {<<dir, frame>> : dir \in
        {d \in {"dxa", "dxa_atoms", "ws_vac", "ws_sia"} :
            Completed(CASE d = "dxa"       -> "export_dxa"
                        [] d = "dxa_atoms" -> "export_dxa_atoms"
                        [] d = "ws_vac"    -> "export_vac"
                        [] d = "ws_sia"    -> "export_sia", outcome)}}

Init ==
    /\ size \in 1..MaxSize
    /\ dir_ok \in BOOLEAN
    /\ ref_ok \in BOOLEAN
    /\ on_crash = "undecided"
    /\ entries \in DataDirs
    /\ listing = <<>>
    /\ files = None
    /\ SplitIdle
    /\ AnalysisIdle
    /\ pc = [r \in Ranks |-> "init"]
    /\ status = [r \in Ranks |-> "running"]
    /\ dump_files = [r \in Ranks |-> None]
    /\ bcast_buf = None
    /\ start_end = [r \in Ranks |-> NoRange]
    /\ frame_idx = [r \in Ranks |-> 0]
    /\ processed = [r \in Ranks |-> <<>>]
    /\ ref_loads = [r \in Ranks |-> 0]
    /\ exported = {}
    /\ catalog_calls = {}
    /\ acked = FALSE

Running(w) == status[w] = "running"

\* An exception leaves main(): the rank's process ends.  No handler and no
\* MPI_Abort exist in the script, so whether the peers are killed is the
\* launcher's choice, made when the first rank dies.
Raise(w) ==
    /\ status' = [status EXCEPT ![w] = "raised"]
    /\ \E o \in {"abort", "hang"} :
          on_crash' = IF on_crash = "undecided" THEN o ELSE on_crash

\* Faulty variant of after_init: the guard `if rank == 0` is missing.
after_init_all_catalog(w) == "catalog"

\* Where a rank goes after lines 50-55: `if rank == 0` guards get_filenames.
after_init(w) == IF w = 0 THEN "catalog" ELSE "bcast"

\* Lines 50-55: comm, rank, size, dump_files = None.
Start(w) ==
    /\ Running(w) /\ pc[w] = "init"
    /\ pc' = [pc EXCEPT ![w] = after_init(w)]
    /\ dump_files' = [dump_files EXCEPT ![w] = None]
    /\ UNCHANGED <<size, dir_ok, ref_ok, on_crash, status, bcast_buf, start_end,
                   frame_idx, processed, ref_loads, exported, catalog_calls, acked>>
    /\ UNCHANGED harness_vars
    /\ UNCHANGED analysis_vars

\* Line 58: dump_files = get_filenames(DATA_DIR); os.listdir raises when the
\* directory cannot be read.
Catalog(w) ==
    /\ Running(w) /\ pc[w] = "catalog"
    /\ catalog_calls' = catalog_calls \cup {w}
    /\ IF dir_ok
       THEN /\ \E order \in Orders(entries) :
                 dump_files' = [dump_files EXCEPT ![w] = get_filenames(order)]
            /\ pc' = [pc EXCEPT ![w] = "bcast"]
            /\ UNCHANGED <<status, on_crash>>
       ELSE /\ Raise(w)
            /\ UNCHANGED <<pc, dump_files>>
    /\ UNCHANGED <<size, dir_ok, ref_ok, bcast_buf, start_end,
                   frame_idx, processed, ref_loads, exported, acked>>
    /\ UNCHANGED harness_vars
    /\ UNCHANGED analysis_vars

\* Line 61: dump_files = comm.bcast(dump_files, root=0).  The root hands its
\* object over; every other rank blocks until the root has done so.
Bcast(w) ==
    /\ Running(w) /\ pc[w] = "bcast"
    /\ IF w = 0
       THEN /\ bcast_buf' = dump_files[0]
            /\ UNCHANGED dump_files
       ELSE /\ bcast_buf # None
            /\ dump_files' = [dump_files EXCEPT ![w] = bcast_buf]
            /\ UNCHANGED bcast_buf
    /\ pc' = [pc EXCEPT ![w] = "split"]
    /\ UNCHANGED <<size, dir_ok, ref_ok, on_crash, status, start_end,
                   frame_idx, processed, ref_loads, exported, catalog_calls, acked>>
    /\ UNCHANGED harness_vars
    /\ UNCHANGED analysis_vars

\* Lines 64-66: start, end = split_indexes(len(dump_files), rank, size).
Split(w) ==
    /\ Running(w) /\ pc[w] = "split"
    /\ start_end' = [start_end EXCEPT ![w] = split_indexes(Len(dump_files[w]), w, size)]
    /\ pc' = [pc EXCEPT ![w] = "process"]
    /\ UNCHANGED <<size, dir_ok, ref_ok, on_crash, status, dump_files, bcast_buf,
                   frame_idx, processed, ref_loads, exported, catalog_calls, acked>>
    /\ UNCHANGED harness_vars
    /\ UNCHANGED analysis_vars

\* dump_files[start:end], the argument of process_file (line 69).
dump_chunk(w) == SubSeq(dump_files[w], start_end[w][1] + 1, start_end[w][2])

\* Loads of REFERENCE_FILE one iteration makes: performWS line 130.
loads_in_iteration(w, outcome) ==
    IF Completed("ws_load", outcome) THEN 1 ELSE 0

\* Lines 83-91: one iteration of the loop of process_file, to its end or to
\* the statement that raises.
ProcessFrame(w) ==
    /\ Running(w) /\ pc[w] = "process"
    /\ frame_idx[w] < Len(dump_chunk(w))
    /\ LET frame == dump_chunk(w)[frame_idx[w] + 1]
       IN  \E outcome \in Outcomes :
             /\ Possible(outcome)
             /\ frame_idx' = [frame_idx EXCEPT ![w] = @ + 1]
             /\ exported' = exported \cup Exports(frame, outcome)
             /\ ref_loads' = [ref_loads EXCEPT ![w] = @ + loads_in_iteration(w, outcome)]
             /\ IF outcome = "ok"
                THEN /\ processed' = [processed EXCEPT ![w] = Append(@, frame)]
                     /\ UNCHANGED <<status, on_crash>>
                ELSE /\ Raise(w)
                     /\ UNCHANGED processed
    /\ UNCHANGED <<size, dir_ok, ref_ok, pc, dump_files, bcast_buf, start_end,
                   catalog_calls, acked>>
    /\ UNCHANGED harness_vars
    /\ UNCHANGED analysis_vars

\* process_file returns (loop exhausted) and the rank calls comm.Barrier(), line 71.
EnterBarrier(w) ==
    /\ Running(w) /\ pc[w] = "process"
    /\ frame_idx[w] = Len(dump_chunk(w))
    /\ pc' = [pc EXCEPT ![w] = "barrier"]
    /\ UNCHANGED <<size, dir_ok, ref_ok, on_crash, status, dump_files, bcast_buf, start_end,
                   frame_idx, processed, ref_loads, exported, catalog_calls, acked>>
    /\ UNCHANGED harness_vars
    /\ UNCHANGED analysis_vars

\* Faulty variant of barrier_open: the barrier returns at once.
barrier_open_unsynchronised == TRUE

\* comm.Barrier() returns once every rank of the communicator has called it.
barrier_open == \A r \in Ranks : pc[r] \in {"barrier", "done"}

\* Lines 71-75: the barrier returns, rank 0 prints the acknowledgment, main returns.
LeaveBarrier(w) ==
    /\ Running(w) /\ pc[w] = "barrier"
    /\ barrier_open
    /\ pc' = [pc EXCEPT ![w] = "done"]
    /\ acked' = (acked \/ w = 0)
    /\ UNCHANGED <<size, dir_ok, ref_ok, on_crash, status, dump_files, bcast_buf, start_end,
                   frame_idx, processed, ref_loads, exported, catalog_calls>>
    /\ UNCHANGED harness_vars
    /\ UNCHANGED analysis_vars

\* A launcher that ends the job when a rank exits abnormally kills the ranks
\* that have not finished.
LauncherAbort ==
    /\ on_crash = "abort"
    /\ \E r \in Ranks : Running(r) /\ pc[r] # "done"
    /\ status' = [r \in Ranks |->
                    IF Running(r) /\ pc[r] # "done" THEN "killed" ELSE status[r]]
    /\ UNCHANGED <<size, dir_ok, ref_ok, on_crash, pc, dump_files, bcast_buf, start_end,
                   frame_idx, processed, ref_loads, exported, catalog_calls, acked>>
    /\ UNCHANGED harness_vars
    /\ UNCHANGED analysis_vars

Next ==
    \/ \E w \in Ranks : Start(w)
    \/ \E w \in Ranks : Catalog(w)
    \/ \E w \in Ranks : Bcast(w)
    \/ \E w \in Ranks : Split(w)
    \/ \E w \in Ranks : ProcessFrame(w)
    \/ \E w \in Ranks : EnterBarrier(w)
    \/ \E w \in Ranks : LeaveBarrier(w)
    \/ LauncherAbort

Spec == Init /\ [][Next]_vars

\* ---------------------------------------------------------------------------
\* Analysis harness: one iteration of the loop of process_file (analysis.py
\* 85-89) with performDXA (93-116) and performWS (118-178), nothing raising.
\* Space is one axis; the reference sites lie two units apart.
\* ---------------------------------------------------------------------------
Collections == {"data", "dxa", "ws", "vac", "sia"}

OutputDirs == {"dxa", "dxa_atoms", "ws_vac", "ws_sia"}

NoFile == <<>>

Positions == 0..(2 * MaxSites - 1)

\* A particle with the properties the script reads or writes: 'Particle
\* Identifier', 'Position', 'Cluster', 'Occupancy', 'Selection'.
Particle(id, pos) ==
    [id |-> id, pos |-> pos, cluster |-> 0, occ |-> 0, sel |-> FALSE]

\* Frames of 0..MaxAtoms atoms at distinct positions, identifiers 1..n given
\* in order of position.
Frames ==
    UNION {{{Particle(i, f[i]) : i \in 1..n} :
                f \in {g \in [1..n -> Positions] :
                          \A i \in 1..(n - 1) : g[i] < g[i + 1]}} :
           n \in 0..MaxAtoms}

\* Reference lattices: any non-empty choice among the sites k at position 2(k-1).
References ==
    {{Particle(k, 2 * (k - 1)) : k \in K} : K \in (SUBSET (1..MaxSites)) \ {{}}}

\* --- DataCollection objects -------------------------------------------------
\* The particles a DataCollection refers to.
Content(c) == heap[coll[c]]

\* DataCollection.clone() is shallow: the clone refers to the same container.
Shared(c) == \E d \in Collections \ {c} : coll[d] = coll[c]

\* Faulty variant of mutable_obj: the shared container is modified in place.
mutable_obj_in_place(c) == coll[c]

\* The container a modification of collection c goes to: a modifier, and the
\* particles_ accessor, first replace a shared container by a copy of its own.
mutable_obj(c) == IF Shared(c) THEN Len(heap) + 1 ELSE coll[c]

\* Collection c gets the particles `content`.
Write(c, content) ==
    /\ coll' = [coll EXCEPT ![c] = mutable_obj(c)]
    /\ heap' = IF mutable_obj(c) > Len(heap)
               THEN Append(heap, content)
               ELSE [heap EXCEPT ![mutable_obj(c)] = content]

\* --- modifiers ----------------------------------------------------------------
\* ExpressionSelectionModifier(expression = 'Cluster == 1')
select_cluster_1(particles) ==
    {[p EXCEPT !.sel = (p.cluster = 1)] : p \in particles}

\* Faulty variant of invert_selection: the selection is left as it is.
invert_selection_noop(particles) == particles

\* InvertSelectionModifier
invert_selection(particles) ==
    {[p EXCEPT !.sel = ~p.sel] : p \in particles}

\* DeleteSelectedModifier
delete_selected(particles) == {p \in particles : ~p.sel}

dist(a, b) == IF a >= b THEN a - b ELSE b - a

\* The sites nearest to a position; more than one when the position is
\* equally far from two sites.
nearest_sites(pos, sites) ==
    {s.id : s \in {t \in sites : \A u \in sites : dist(pos, t.pos) <= dist(pos, u.pos)}}

\* WignerSeitzAnalysisModifier: every atom goes to a nearest reference site.
Assignments(atoms, sites) ==
    {f \in [{a.id : a \in atoms} -> {t.id : t \in sites}] :
        \A a \in atoms : f[a.id] \in nearest_sites(a.pos, sites)}

\* Faulty variant of occupancy: a site is flagged occupied, atoms are not counted.
occupancy_flag(site, f) ==
    IF \E a \in DOMAIN f : f[a] = site THEN 1 ELSE 0

\* 'Occupancy' of a site: the number of atoms assigned to it.
occupancy(site, f) == Cardinality({a \in DOMAIN f : f[a] = site})

\* Output of WignerSeitzAnalysisModifier with its default output_displaced =
\* False: the sites of the reference, each with its 'Occupancy'.
ws_output(sites, f) ==
    {[t EXCEPT !.occ = occupancy(t.id, f)] : t \in sites}

\* occupancies[i] of line 134 for the particle with identifier id.
occupancies(id) == (CHOOSE q \in Content("ws") : q.id = id).occ

\* The columns "Particle Identifier", "Position.X/Y/Z" of export_file.
Records(particles) == {<<p.id, p.pos>> : p \in particles}

AnalysisInit ==
    /\ loaded \in Frames
    /\ reference \in References
    /\ heap = <<loaded>>
    /\ coll = [c \in Collections |-> IF c = "data" THEN 1 ELSE 0]
    /\ apc = "loaded"
    /\ assigned = <<>>
    /\ out = [d \in OutputDirs |-> NoFile]
    /\ SplitIdle
    /\ CatalogIdle
    /\ MainIdle

Others == UNCHANGED <<harness_vars, main_vars, loaded, reference>>

\* Line 88: data.clone() is handed to performDXA.
CloneForDXA ==
    /\ apc = "loaded"
    /\ apc' = "dxa_apply"
    /\ coll' = [coll EXCEPT !["dxa"] = coll["data"]]
    /\ UNCHANGED <<heap, assigned, out>>
    /\ Others

\* Lines 95-101: DXA labels every atom with a cluster, then 'Cluster == 1' is selected.
DXAApply ==
    /\ apc = "dxa_apply"
    /\ apc' = "dxa_delete"
    /\ \E label \in [{p.id : p \in Content("dxa")} -> {0, 1}] :
          Write("dxa", select_cluster_1({[p EXCEPT !.cluster = label[p.id]] :
                                            p \in Content("dxa")}))
    /\ UNCHANGED <<assigned, out>>
    /\ Others

\* Lines 104-105: the selected atoms are deleted.
DXADelete ==
    /\ apc = "dxa_delete"
    /\ apc' = "dxa_export"
    /\ Write("dxa", delete_selected(Content("dxa")))
    /\ UNCHANGED <<assigned, out>>
    /\ Others

\* Lines 107-116: the two exports; performDXA returns and its data is dropped.
\* The content of the .ca file (the dislocation mesh) is not modelled.
DXAExport ==
    /\ apc = "dxa_export"
    /\ apc' = "ws_clone"
    /\ out' = [out EXCEPT !["dxa"] = <<{}>>,
                          !["dxa_atoms"] = <<{<<p.id, p.pos, p.cluster>> : p \in Content("dxa")}>>]
    /\ coll' = [coll EXCEPT !["dxa"] = 0]
    /\ UNCHANGED <<heap, assigned>>
    /\ Others

\* Line 89: data.clone() is handed to performWS.
CloneForWS ==
    /\ apc = "ws_clone"
    /\ apc' = "ws_apply"
    /\ coll' = [coll EXCEPT !["ws"] = coll["data"]]
    /\ UNCHANGED <<heap, assigned, out>>
    /\ Others

\* Lines 128-134: the Wigner-Seitz analysis against the reference.
WSApply ==
    /\ apc = "ws_apply"
    /\ apc' = "ws_clones"
    /\ \E f \in Assignments(Content("ws"), reference) :
          /\ assigned' = f
          /\ Write("ws", ws_output(reference, f))
    /\ UNCHANGED out
    /\ Others

\* Lines 136-137: vac_data = data.clone(); sia_data = data.clone().
CloneVacSia ==
    /\ apc = "ws_clones"
    /\ apc' = "vac_create"
    /\ coll' = [coll EXCEPT !["vac"] = coll["ws"], !["sia"] = coll["ws"]]
    /\ UNCHANGED <<heap, assigned, out>>
    /\ Others

\* Lines 139-140: particles_.create_property('Selection'), all zero.
CreateVacSelection ==
    /\ apc = "vac_create"
    /\ apc' = "sia_create"
    /\ Write("vac", {[p EXCEPT !.sel = FALSE] : p \in Content("vac")})
    /\ UNCHANGED <<assigned, out>>
    /\ Others

CreateSiaSelection ==
    /\ apc = "sia_create"
    /\ apc' = "vac_assign"
    /\ Write("sia", {[p EXCEPT !.sel = FALSE] : p \in Content("sia")})
    /\ UNCHANGED <<assigned, out>>
    /\ Others

\* Line 142: vac_selection[...] = (occupancies == 0)
AssignVacSelection ==
    /\ apc = "vac_assign"
    /\ apc' = "sia_assign"
    /\ Write("vac", {[p EXCEPT !.sel = (occupancies(p.id) = 0)] : p \in Content("vac")})
    /\ UNCHANGED <<assigned, out>>
    /\ Others

\* Line 143: sia_selection[...] = (occupancies == 2)
AssignSiaSelection ==
    /\ apc = "sia_assign"
    /\ apc' = "vac_invert"
    /\ Write("sia", {[p EXCEPT !.sel = (occupancies(p.id) = 2)] : p \in Content("sia")})
    /\ UNCHANGED <<assigned, out>>
    /\ Others

\* Lines 150-151
InvertVac ==
    /\ apc = "vac_invert"
    /\ apc' = "sia_invert"
    /\ Write("vac", invert_selection(Content("vac")))
    /\ UNCHANGED <<assigned, out>>
    /\ Others

InvertSia ==
    /\ apc = "sia_invert"
    /\ apc' = "vac_delete"
    /\ Write("sia", invert_selection(Content("sia")))
    /\ UNCHANGED <<assigned, out>>
    /\ Others

\* Lines 153-154
DeleteVac ==
    /\ apc = "vac_delete"
    /\ apc' = "sia_delete"
    /\ Write("vac", delete_selected(Content("vac")))
    /\ UNCHANGED <<assigned, out>>
    /\ Others

DeleteSia ==
    /\ apc = "sia_delete"
    /\ apc' = "vac_export"
    /\ Write("sia", delete_selected(Content("sia")))
    /\ UNCHANGED <<assigned, out>>
    /\ Others

\* Lines 162-167
ExportVac ==
    /\ apc = "vac_export"
    /\ apc' = "sia_export"
    /\ out' = [out EXCEPT !["ws_vac"] = <<Records(Content("vac"))>>]
    /\ UNCHANGED <<heap, coll, assigned>>
    /\ Others

\* Lines 169-178
ExportSia ==
    /\ apc = "sia_export"
    /\ apc' = "done"
    /\ out' = [out EXCEPT !["ws_sia"] = <<Records(Content("sia"))>>]
    /\ UNCHANGED <<heap, coll, assigned>>
    /\ Others

AnalysisNext ==
    \/ CloneForDXA \/ DXAApply \/ DXADelete \/ DXAExport
    \/ CloneForWS \/ WSApply \/ CloneVacSia
    \/ CreateVacSelection \/ CreateSiaSelection
    \/ AssignVacSelection \/ AssignSiaSelection
    \/ InvertVac \/ InvertSia
    \/ DeleteVac \/ DeleteSia
    \/ ExportVac \/ ExportSia

AnalysisSpec == AnalysisInit /\ [][AnalysisNext]_vars

\* ===========================================================================
\* Claims about the partitioner (checked under SplitSpec)
\* ===========================================================================
AllCalled == DOMAIN ranges = 0..(sp_size - 1)

RangeSize(r) == ranges[r][2] - ranges[r][1]

\* C1: for n >= 0 and size >= 1 the half-open ranges returned by split_indexes
\* for rank = 0..size-1 partition [0, n): no range reaches outside [0, n), each
\* rank's end is the next rank's start, every index lies in the range of
\* exactly one rank; with n < size the ranks >= n get an empty range, and with
\* size = 1 rank 0 gets [0, n).
C1_RangesPartition ==
    /\ \A r \in DOMAIN ranges :
          0 <= ranges[r][1] /\ ranges[r][1] <= ranges[r][2] /\ ranges[r][2] <= n_files
    /\ \A r \in DOMAIN ranges :
          (r + 1) \in DOMAIN ranges => ranges[r][2] = ranges[r + 1][1]
    /\ AllCalled =>
          \A i \in 0..(n_files - 1) :
              Cardinality({r \in DOMAIN ranges : ranges[r][1] <= i /\ i < ranges[r][2]}) = 1
    /\ \A r \in DOMAIN ranges :
          (n_files < sp_size /\ r >= n_files) => ranges[r][1] = ranges[r][2]
    /\ (sp_size = 1 /\ 0 \in DOMAIN ranges) => ranges[0] = <<0, n_files>>

\* Every rank has its range, fewer files than ranks, some rank non-empty.
C1_Witness ==
    /\ AllCalled
    /\ n_files = 3 /\ sp_size = 5
    /\ ranges[2] = <<2, 3>> /\ ranges[4] = <<3, 3>>

\* C2: with q = n div size and r = n mod size every rank < r gets q+1 indices
\* and every rank >= r gets q, so range sizes differ by at most 1; n = 37 and
\* size = 4 give sizes 10, 9, 9, 9 with rank 0 receiving [0, 10).
C2_BalancedSizes ==
    /\ \A r \in DOMAIN ranges :
          RangeSize(r) = IF r < n_files % sp_size
                         THEN (n_files \div sp_size) + 1
                         ELSE n_files \div sp_size
    /\ \A r1, r2 \in DOMAIN ranges :
          RangeSize(r1) - RangeSize(r2) <= 1
    /\ (n_files = 37 /\ sp_size = 4 /\ AllCalled) =>
          /\ ranges[0] = <<0, 10>>
          /\ RangeSize(0) = 10 /\ RangeSize(1) = 9 /\ RangeSize(2) = 9 /\ RangeSize(3) = 9

\* The 37 frames / 4 workers scenario, every rank called.
C2_Witness ==
    /\ n_files = 37 /\ sp_size = 4 /\ AllCalled
    /\ ranges[0] = <<0, 10>> /\ ranges[3] = <<28, 37>>

\* ===========================================================================
\* Claims about the catalog (checked under CatalogSpec)
\* ===========================================================================
\* The natural order as the contract words it, on the pieces of two names:
\* digit pieces by numeric value, the others lexicographically ignoring case.
RECURSIVE PiecesLeq(_, _)
PiecesLeq(p, q) ==
    IF Len(p) = 0 THEN TRUE
    ELSE IF Len(q) = 0 THEN FALSE
    ELSE IF isdigit(p[1]) /\ isdigit(q[1])
         THEN IF int(p[1]) # int(q[1]) THEN int(p[1]) < int(q[1])
              ELSE PiecesLeq(Tail(p), Tail(q))
         ELSE IF lower(p[1]) # lower(q[1]) THEN str_lt(lower(p[1]), lower(q[1]))
              ELSE PiecesLeq(Tail(p), Tail(q))

NaturalLeq(a, b) == PiecesLeq(re_split(a), re_split(b))

\* a and b differ only in one embedded number, and a's is the smaller.
SmallerNumberOnly(a, b) ==
    LET p == re_split(a)
        q == re_split(b)
    IN  /\ Len(p) = Len(q)
        /\ \E k \in 1..Len(p) :
              /\ isdigit(p[k]) /\ isdigit(q[k]) /\ int(p[k]) < int(q[k])
              /\ \A m \in 1..Len(p) : m # k => p[m] = q[m]

IndexOf(seq, x) == CHOOSE i \in 1..Len(seq) : seq[i] = x

\* C3: get_filenames returns the names in natural-sort order (digit substrings
\* by numeric value, non-digit substrings lexicographically ignoring case); of
\* two names that differ only in an embedded number the one with the smaller
\* number comes first; frame_2, frame_10, frame_1 gives frame_1, frame_2, frame_10.
C3_NaturalSortOrder ==
    files # None =>
        /\ Len(files) = Cardinality(entries)
        /\ {files[i] : i \in 1..Len(files)} = entries
        /\ \A i, j \in 1..Len(files) : i < j => NaturalLeq(files[i], files[j])
        /\ \A a, b \in entries :
              SmallerNumberOnly(a, b) => IndexOf(files, a) < IndexOf(files, b)
        /\ entries = {frame_1, frame_2, frame_10} =>
              files = <<frame_1, frame_2, frame_10>>

\* The contract's example: the listing frame_2, frame_10, frame_1 was sorted.
C3_Witness ==
    /\ listing = <<frame_2, frame_10, frame_1>>
    /\ files = <<frame_1, frame_2, frame_10>>

\* C4: for any set of distinct names get_filenames returns the same sequence
\* whatever order the directory listing enumerates them in: once a call has
\* returned, every later call on the same directory returns the same sequence.
C4_SameOrderWhateverListing ==
    [][files # None => files' = files]_vars

\* ===========================================================================
\* Claims about the coordinator (checked under Spec)
\* ===========================================================================
\* The coordinator phase a position of main() belongs to: INIT 1, CATALOG 2,
\* DISTRIBUTE 3, PROCESS 4, BARRIER 5, DONE 6.
PhaseNo(p) ==
    CASE p = "init" -> 1 [] p = "catalog" -> 2 [] p = "bcast" -> 3 [] p = "split" -> 3
      [] p = "process" -> 4 [] p = "barrier" -> 5 [] p = "done" -> 6

\* A rank has computed its range or begun a frame.
HasRange(w) == start_end[w] # NoRange

C5_State ==
    /\ catalog_calls \subseteq {0}
    /\ \A w \in Ranks : pc[w] = "catalog" => w = 0
    /\ \A w \in Ranks :
          (HasRange(w) \/ frame_idx[w] > 0 \/ Len(processed[w]) > 0) =>
              /\ PhaseNo(pc[w]) >= 4
              /\ bcast_buf # None
              /\ 0 \in catalog_calls
              /\ dump_files[w] = bcast_buf
              /\ dump_files[w] = dump_files[0]
              /\ start_end[w] = split_indexes(Len(dump_files[0]), w, size)

C5_Step ==
    \A w \in Ranks :
        \/ PhaseNo(pc'[w]) = PhaseNo(pc[w])
        \/ PhaseNo(pc'[w]) = PhaseNo(pc[w]) + 1
        \/ w # 0 /\ pc[w] = "init" /\ pc'[w] = "bcast"

\* C5: every worker passes through INIT, CATALOG, DISTRIBUTE, PROCESS, BARRIER,
\* DONE in this order and never goes back; the catalog is built by rank 0
\* only (the other ranks go from INIT to DISTRIBUTE); no worker computes its
\* range or processes a frame before it has received the broadcast catalog,
\* and every worker computes its range from the catalog rank 0 built.
C5_PhasesInOrder == [](C5_State) /\ [][C5_Step]_vars

\* Two ranks, both through every phase, rank 1 having processed a frame of
\* the catalog it received.
C5_Witness ==
    /\ size = 2
    /\ pc[0] = "done" /\ pc[1] = "done"
    /\ Len(processed[1]) > 0
    /\ dump_files[1] = bcast_buf

NoFailure == \A w \in Ranks : status[w] = "running"

\* How many times rank w has processed frame f.
TimesProcessed(w, f) ==
    Cardinality({i \in 1..Len(processed[w]) : processed[w][i] = f})

SliceDone(w) ==
    /\ HasRange(w)
    /\ Len(processed[w]) = start_end[w][2] - start_end[w][1]

\* C6: in a run without failures, when rank 0 has printed the acknowledgment
\* every frame of the catalog has been processed exactly once, by exactly one
\* worker; no worker leaves the barrier while another worker still has an
\* unprocessed frame in its slice; no frame is processed by two workers.
C6_AllFramesOnceAtAck ==
    NoFailure =>
        /\ acked =>
              \A f \in entries :
                  /\ Cardinality({w \in Ranks : TimesProcessed(w, f) > 0}) = 1
                  /\ \A w \in Ranks : TimesProcessed(w, f) <= 1
        /\ \A w \in Ranks : pc[w] = "done" => \A v \in Ranks : SliceDone(v)
        /\ \A w, v \in Ranks : \A f \in entries :
              (TimesProcessed(w, f) > 0 /\ TimesProcessed(v, f) > 0) => w = v

\* Two ranks and three frames, no failure, the acknowledgment printed.
C6_Witness ==
    /\ NoFailure /\ acked
    /\ size = 2 /\ Cardinality(entries) = 3
    /\ Len(processed[0]) = 2 /\ Len(processed[1]) = 1

\* Rank w died of an exception raised while it processed a frame.
FrameFailed(w) == status[w] = "raised" /\ pc[w] = "process"

\* Rank w can take its next step of main(): it is alive, and not blocked in
\* comm.bcast (the root has not sent) or in comm.Barrier (a rank is missing).
CanStep(w) ==
    /\ Running(w)
    /\ pc[w] # "done"
    /\ pc[w] = "bcast" => (w = 0 \/ bcast_buf # None)
    /\ pc[w] = "barrier" => barrier_open

\* The run has come to rest: no rank can step and the launcher kills nothing.
AtRest ==
    /\ \A w \in Ranks : ~CanStep(w)
    /\ ~(on_crash = "abort" /\ \E r \in Ranks : Running(r) /\ pc[r] # "done")

AllDone == \A w \in Ranks : pc[w] = "done"

\* C7: a worker on which processing of a frame fails still reaches the terminal
\* barrier and the run does not deadlock: once a frame has failed, the run
\* never comes to rest before every worker has left the barrier.
C7_FailedWorkerReachesBarrier ==
    (\E w \in Ranks : FrameFailed(w)) => (AllDone \/ ~AtRest)

\* Rank 0 died of the exception get_filenames raised.
CatalogFailed == status[0] = "raised" /\ pc[0] = "catalog"

\* C8: a failure while rank 0 builds the catalog aborts the whole run before
\* distribution: no worker processes any frame, and when the run has come to
\* rest no other worker is still blocked waiting for the broadcast.
C8_CatalogFailureAbortsRun ==
    CatalogFailed =>
        /\ \A w \in Ranks : frame_idx[w] = 0 /\ Len(processed[w]) = 0
        /\ exported = {}
        /\ AtRest =>
              \A w \in Ranks : ~(w # 0 /\ Running(w) /\ pc[w] = "bcast")

\* C9: a frame-level error is recoverable at frame granularity: the worker
\* skips the frame and continues, so when the run has come to rest every
\* other frame of the worker's slice has been processed.
C9_FrameErrorSkipsFrame ==
    (dir_ok /\ ref_ok /\ AtRest) =>
        \A w \in Ranks :
            FrameFailed(w) =>
                \A i \in 1..Len(dump_chunk(w)) :
                    i # frame_idx[w] => TimesProcessed(w, dump_chunk(w)[i]) = 1

\* C10: the reference lattice is loaded once per worker: over a worker's whole
\* run the number of loads of the reference file is at most 1.
C10_ReferenceLoadedOnce ==
    \A w \in Ranks : ref_loads[w] <= 1

\* C11: when the reference file is missing or malformed the run aborts before
\* any frame is processed: no output file is written for any frame into any
\* output directory, on any worker.
C11_NoOutputWithoutReference ==
    ~ref_ok => exported = {}

\* ===========================================================================
\* Claims about the analysis of one frame (checked under AnalysisSpec)
\* ===========================================================================
\* The atoms of the loaded frame assigned to a site.
AtomsAt(site) == {a \in loaded : a.id \in DOMAIN assigned /\ assigned[a.id] = site}

Assigned == apc \notin {"loaded", "dxa_apply", "dxa_delete", "dxa_export", "ws_clone", "ws_apply"}

SiteRecords(sites) == {<<t.id, t.pos>> : t \in sites}

SitesWith(k) == {t \in reference : Cardinality(AtomsAt(t.id)) = k}

Written(d) == out[d] # NoFile

File(d) == out[d][1]

\* C12: the vacancy export holds exactly the reference sites to which no atom
\* was assigned, each by the site's identifier and position; a site with
\* exactly one assigned atom is in neither the vacancy nor the interstitial
\* export; the two exports have no record in common.
C12_VacancyExport ==
    /\ Written("ws_vac") => File("ws_vac") = SiteRecords(SitesWith(0))
    /\ Written("ws_vac") /\ Written("ws_sia") =>
          /\ \A t \in SitesWith(1) :
                /\ <<t.id, t.pos>> \notin File("ws_vac")
                /\ <<t.id, t.pos>> \notin File("ws_sia")
          /\ File("ws_vac") \cap File("ws_sia") = {}

C12_Witness ==
    /\ apc = "done"
    /\ File("ws_vac") # {}
    /\ File("ws_sia") # {}
    /\ SitesWith(1) # {}

\* C13: for every site with exactly two assigned atoms both atoms are in the
\* interstitial export: that file holds one record per assigned atom (the
\* atom's identifier and position), two for each occupancy-2 site.
C13_BothAtomsReported ==
    Written("ws_sia") =>
        File("ws_sia") = {<<a.id, a.pos>> : a \in UNION {AtomsAt(t.id) : t \in SitesWith(2)}}

\* A site is reported by a file when its own record or the record of one of
\* the atoms assigned to it is in the file.
Reported(t, d) ==
    \/ <<t.id, t.pos>> \in File(d)
    \/ \E a \in AtomsAt(t.id) : <<a.id, a.pos>> \in File(d)

\* C14: a site with more than two assigned atoms is reported in the
\* interstitial export like the occupancy-2 sites: every site with occupancy
\* of 2 or more appears in the interstitial export.
C14_CrowdedSitesReported ==
    Written("ws_sia") =>
        \A t \in reference : Cardinality(AtomsAt(t.id)) >= 2 => Reported(t, "ws_sia")

RECURSIVE SumOcc(_)
SumOcc(particles) ==
    IF particles = {} THEN 0
    ELSE LET p == CHOOSE q \in particles : TRUE
         IN  p.occ + SumOcc(particles \ {p})

\* C15: occupancy conservation. Every atom of the loaded frame is assigned to
\* exactly one site of the reference, none is left out, and the occupancies
\* of the sites add up to the number of atoms process_file loaded.
C15_OccupancyConservation ==
    Assigned =>
        /\ DOMAIN assigned = {a.id : a \in loaded}
        /\ \A a \in loaded :
              Cardinality({t \in reference : a \in AtomsAt(t.id)}) = 1
        /\ \A p \in Content("ws") : p.occ = Cardinality(AtomsAt(p.id))
        /\ SumOcc(Content("ws")) = Cardinality(loaded)

C15_Witness ==
    /\ apc = "ws_clones"
    /\ Cardinality(loaded) >= 3
    /\ SitesWith(2) # {}
    /\ SitesWith(0) # {}

C16_State ==
    /\ Content("data") = loaded
    /\ apc = "ws_apply" => Content("ws") = loaded
    /\ apc \in {"vac_assign", "sia_assign", "vac_invert", "sia_invert",
                "vac_delete", "sia_delete", "vac_export", "sia_export", "done"}
          => coll["vac"] # coll["sia"]

C16_Step ==
    /\ apc = "vac_delete" => Content("sia")' = Content("sia")
    /\ apc = "sia_delete" => Content("vac")' = Content("vac")

\* C16: the two analyses of a frame do not disturb each other. The deletion
\* done by performDXA leaves the loaded frame as it was, so performWS gets
\* every atom of the frame; the vacancy and the interstitial selection are
\* made on separate copies, and deleting from one leaves the other unchanged.
C16_AnalysesIndependent ==
    [](C16_State) /\ [][C16_Step]_vars

C16_Witness ==
    /\ apc = "sia_delete"
    /\ Cardinality(File("dxa_atoms")) < Cardinality(loaded)
    /\ Cardinality(Content("vac")) < Cardinality(Content("sia"))

====
